---- MODULE Spec2Model ----
(***************************************************************************)
(* Model of the persistent hash index of dmcache-recovery (src/src/index.rs)*)
(*                                                                         *)
(* The index file is modelled byte for byte: `mmap` is the content of the  *)
(* file (Len(mmap) is its length), and every accessor of `Layout` reads or *)
(* writes the bytes at the offsets the Rust code computes.  Offsets are    *)
(* 0-based as in the source; a TLA+ sequence is 1-based, so the byte at    *)
(* offset o is m[o + 1].                                                   *)
(*                                                                         *)
(* A u128 hash prefix is kept as its 16 little-endian bytes, so the        *)
(* wrapping multiplication by 31 and the reduction modulo the capacity are *)
(* computed exactly, with the full width of 128 bits.                      *)
(***************************************************************************)
EXTENDS Integers, Sequences, FiniteSets, TLC

VARIABLES
    mmap,        \* the bytes of the index file
    layout,      \* IndexBuilder.layout
    closed,      \* IndexBuilder.closed
    pc,          \* where the building process is
    item_count,  \* the item count IndexBuilder::new was called with
    entries,     \* the (hash, value) pairs of the add calls that have returned
    index,       \* the outcome of the reader's last Index::open
    got,         \* the outcome of the reader's last Index::get
    args,          \* the command line of cache_guess_mapping
    origin,        \* the origin device
    cache_device,  \* the cache device
    log,           \* the bytes of the index file that collect writes
    collect,       \* where collect is: its loop variables
    find,          \* where find is: its hash map and loop variables
    output         \* what find has printed, one record per cache block

builder_vars == << mmap, layout, closed, pc, item_count, entries, index, got >>
mapper_vars == << args, origin, cache_device, log, collect, find, output >>
vars == << builder_vars, mapper_vars >>

\* the number of add calls that have returned
added == Len(entries)

\* ------------------------------------------------------------------------
\* Program constants
\* ------------------------------------------------------------------------
BLOCK_SIZE_OFFSET == 48
CAPACITY_OFFSET == 56
BITSET_OFFSET == 64
PREAMBLE_SIZE == BLOCK_SIZE_OFFSET
U64_SIZE == 8
U128_SIZE == 16
U8_BITS == 8
HASH_BYTES == 20
MULTIPLIER == 31

\* The number of values of a byte.
BYTE_RANGE == 2 ^ U8_BITS

\* b"INDEX / dmcache-recovery\n" followed by 23 zero bytes.
PREAMBLE ==
    << 73, 78, 68, 69, 88, 32, 47, 32,
       100, 109, 99, 97, 99, 104, 101, 45,
       114, 101, 99, 111, 118, 101, 114, 121,
       10, 0, 0, 0, 0, 0, 0, 0,
       0, 0, 0, 0, 0, 0, 0, 0,
       0, 0, 0, 0, 0, 0, 0, 0 >>

\* ------------------------------------------------------------------------
\* Bounds of the model
\* ------------------------------------------------------------------------
\* Declared item counts are 0 .. MaxItems.
MaxItems == 3
\* At most MaxAdds calls of add complete in one build.
MaxAdds == 3
\* At most MaxTruncatedAdds entries are added to a file that is cut later.
MaxTruncatedAdds == 2
\* The layouts of the item counts 0 .. MaxLayoutItems are computed.
MaxLayoutItems == 44
\* The probe law is computed for the capacities 1 .. MaxProbeCapacity.
MaxProbeCapacity == 12
\* The probe steps 0 .. MaxProbeSteps - 1 of a digest are looked at; the
\* prefixes of the digests of the model come back after at most 8 steps.
MaxProbeSteps == 8

ItemCounts == 0..MaxItems
BlockSizes == {8192}
Values == {0, 8192}

\* A digest is a sequence of HASH_BYTES bytes.  The digests of the model
\* have a nonzero byte only at offset 15 (the most significant byte of the
\* probe prefix) and at offset 16 (the first byte outside the prefix).  The
\* orbit of such a prefix under the wrapping multiplication by 31 has at
\* most 8 elements, so a probe walk either finds its slot or provably
\* cycles; the multiplication wraps from the second step on.
MkHash(top, tail) ==
    [i \in 1..HASH_BYTES |->
        IF i = U128_SIZE THEN top ELSE IF i = U128_SIZE + 1 THEN tail ELSE 0]

Hashes == { MkHash(0, 0), MkHash(1, 0), MkHash(1, 1), MkHash(3, 0), MkHash(64, 0) }

\* ------------------------------------------------------------------------
\* Bytes
\* ------------------------------------------------------------------------
Zeros(n) == [i \in 1..n |-> 0]

\* value.to_le_bytes(), n bytes wide
RECURSIVE to_le_bytes(_, _)
to_le_bytes(value, n) ==
    IF n = 0 THEN << >>
    ELSE << value % BYTE_RANGE >> \o to_le_bytes(value \div BYTE_RANGE, n - 1)

\* u64::from_le_bytes(bytes)
RECURSIVE from_le_bytes(_)
from_le_bytes(bytes) ==
    IF bytes = << >> THEN 0
    ELSE Head(bytes) + BYTE_RANGE * from_le_bytes(Tail(bytes))

\* mmap[offset..][..n]
Slice(m, offset, n) == [i \in 1..n |-> m[offset + i]]

\* mmap[offset..][..Len(bytes)].copy_from_slice(bytes)
CopyFromSlice(m, offset, bytes) ==
    [i \in 1..Len(m) |->
        IF offset < i /\ i <= offset + Len(bytes) THEN bytes[i - offset] ELSE m[i]]

\* write_bytes(&mut hash, dest) called for the k-th time (k = 1, 2, 3) on the
\* same shrinking source: the bytes 8(k-1) .. 8k-1 of the hash, and zeros
\* where the hash has ended.
write_bytes(hash, k) ==
    [i \in 1..U64_SIZE |->
        IF U64_SIZE * (k - 1) + i <= Len(hash)
        THEN hash[U64_SIZE * (k - 1) + i]
        ELSE 0]

\* ------------------------------------------------------------------------
\* Layout
\* ------------------------------------------------------------------------
div_ceil(a, b) == (a + b - 1) \div b
next_multiple_of(a, b) == div_ceil(a, b) * b

\* Mutant of from_capacity: the bitset is not padded to a multiple of 8 bytes.
from_capacity_Unpadded(capacity) ==
    LET hash1_offset == BITSET_OFFSET + div_ceil(capacity, U8_BITS)
        hash2_offset == hash1_offset + (U64_SIZE * capacity)
        hash3_offset == hash2_offset + (U64_SIZE * capacity)
        value_offset == hash3_offset + (U64_SIZE * capacity)
        min_file_size == value_offset + (U64_SIZE * capacity)
    IN  [ capacity |-> capacity,
          hash1_offset |-> hash1_offset,
          hash2_offset |-> hash2_offset,
          hash3_offset |-> hash3_offset,
          value_offset |-> value_offset,
          min_file_size |-> min_file_size ]

from_capacity(capacity) ==
    LET hash1_offset == BITSET_OFFSET + next_multiple_of(div_ceil(capacity, U8_BITS), U64_SIZE)
        hash2_offset == hash1_offset + (U64_SIZE * capacity)
        hash3_offset == hash2_offset + (U64_SIZE * capacity)
        value_offset == hash3_offset + (U64_SIZE * capacity)
        min_file_size == value_offset + (U64_SIZE * capacity)
    IN  [ capacity |-> capacity,
          hash1_offset |-> hash1_offset,
          hash2_offset |-> hash2_offset,
          hash3_offset |-> hash3_offset,
          value_offset |-> value_offset,
          min_file_size |-> min_file_size ]

\* Mutant of from_item_count: no spare slots.
from_item_count_NoSpare(n) == from_capacity(n)

from_item_count(n) == from_capacity(n + n \div 2)

\* The outcome of check_preamble: slicing mmap[..PREAMBLE_SIZE] panics on a
\* file shorter than the preamble.
check_preamble(m) ==
    IF Len(m) < PREAMBLE_SIZE THEN "panic"
    ELSE IF Slice(m, 0, PREAMBLE_SIZE) = PREAMBLE THEN "Ok"
    ELSE "InvalidData"

set_preamble(m) == CopyFromSlice(m, 0, PREAMBLE)

get_block_size(m) == from_le_bytes(Slice(m, BLOCK_SIZE_OFFSET, U64_SIZE))
set_block_size(m, block_size) ==
    CopyFromSlice(m, BLOCK_SIZE_OFFSET, to_le_bytes(block_size, U64_SIZE))

get_capacity(m) == from_le_bytes(Slice(m, CAPACITY_OFFSET, U64_SIZE))
\* Mutant of set_capacity: the capacity is stored at the block size's offset.
set_capacity_Misplaced(l, m) ==
    CopyFromSlice(m, BLOCK_SIZE_OFFSET, to_le_bytes(l.capacity, U64_SIZE))

set_capacity(l, m) ==
    CopyFromSlice(m, CAPACITY_OFFSET, to_le_bytes(l.capacity, U64_SIZE))

\* 0b1000_0000 >> (index % 8)
Bitmask(idx) == 2 ^ (U8_BITS - 1 - (idx % U8_BITS))
\* (byte & bitmask) != 0, for a bitmask with one bit set
BitAnd(byte, bitmask) == IF (byte \div bitmask) % 2 = 1 THEN bitmask ELSE 0

is_used(l, m, idx) ==
    LET byte_offset == BITSET_OFFSET + idx \div U8_BITS
    IN  BitAnd(m[byte_offset + 1], Bitmask(idx)) # 0

\* Mutant of set_used: the byte is assigned the bitmask, not or-ed with it.
set_used_Assign(l, m, idx) ==
    LET byte_offset == BITSET_OFFSET + idx \div U8_BITS
    IN  [m EXCEPT ![byte_offset + 1] = Bitmask(idx)]

set_used(l, m, idx) ==
    LET byte_offset == BITSET_OFFSET + idx \div U8_BITS
        byte == m[byte_offset + 1]
    IN  [m EXCEPT ![byte_offset + 1] = byte - BitAnd(byte, Bitmask(idx)) + Bitmask(idx)]

set_entry(l, m, idx, hash, value) ==
    LET inner_offset == U64_SIZE * idx
        m0 == set_used(l, m, idx)
        m1 == CopyFromSlice(m0, l.hash1_offset + inner_offset, write_bytes(hash, 1))
        m2 == CopyFromSlice(m1, l.hash2_offset + inner_offset, write_bytes(hash, 2))
        m3 == CopyFromSlice(m2, l.hash3_offset + inner_offset, write_bytes(hash, 3))
    IN  CopyFromSlice(m3, l.value_offset + inner_offset, to_le_bytes(value, U64_SIZE))

get_hash1(l, m, idx) == Slice(m, l.hash1_offset + U64_SIZE * idx, U64_SIZE)
get_hash2(l, m, idx) == Slice(m, l.hash2_offset + U64_SIZE * idx, U64_SIZE)
get_hash3(l, m, idx) == Slice(m, l.hash3_offset + U64_SIZE * idx, U64_SIZE)
get_value(l, m, idx) ==
    from_le_bytes(Slice(m, l.value_offset + U64_SIZE * idx, U64_SIZE))

\* Mutant of from_file: the length of the file is not compared with the layout.
from_file_NoLengthCheck(m) ==
    IF check_preamble(m) # "Ok" THEN [result |-> check_preamble(m)]
    ELSE IF Len(m) < CAPACITY_OFFSET + U64_SIZE THEN [result |-> "panic"]
    ELSE [result |-> "Ok", layout |-> from_capacity(get_capacity(m))]

\* The outcome of Layout::from_file.  get_capacity slices the bytes
\* 56 .. 63 and panics on a file that ends before them.
from_file(m) ==
    IF check_preamble(m) # "Ok" THEN [result |-> check_preamble(m)]
    ELSE IF Len(m) < CAPACITY_OFFSET + U64_SIZE THEN [result |-> "panic"]
    ELSE LET l == from_capacity(get_capacity(m))
         IN  IF Len(m) < l.min_file_size
             THEN [result |-> "UnexpectedEof"]
             ELSE [result |-> "Ok", layout |-> l]

\* ------------------------------------------------------------------------
\* Probe sequence
\* ------------------------------------------------------------------------
\* u128::from_le_bytes(hash[..16]), kept as its 16 little-endian bytes
read_hash_prefix(hash) == SubSeq(hash, 1, U128_SIZE)

\* previous.wrapping_mul(31): schoolbook multiplication from the least
\* significant byte on; the carry out of the last byte is dropped.
RECURSIVE MulFrom(_, _, _)
MulFrom(prefix, i, carry) ==
    IF i > Len(prefix) THEN << >>
    ELSE LET t == prefix[i] * MULTIPLIER + carry
         IN  << t % BYTE_RANGE >> \o MulFrom(prefix, i + 1, t \div BYTE_RANGE)

next_hash_prefix(previous) == MulFrom(previous, 1, 0)

\* prefix % capacity, for capacity > 0 (Horner's rule from the top byte)
RECURSIVE ModFrom(_, _, _)
ModFrom(prefix, i, capacity) ==
    IF i > Len(prefix) THEN 0
    ELSE (prefix[i] + BYTE_RANGE * ModFrom(prefix, i + 1, capacity)) % capacity

\* Mutant of HashIndex: the prefix is cut to its low 64 bits before the
\* remainder is taken.
HashIndex_LowWord(l, prefix) == ModFrom(SubSeq(prefix, 1, U64_SIZE), 1, l.capacity)

\* (prefix % capacity) as usize: the slot of a prefix
HashIndex(l, prefix) == ModFrom(prefix, 1, l.capacity)

\* The first n prefixes of successors(Some(prefix), next_hash_prefix)
RECURSIVE Successors(_, _)
Successors(prefix, n) ==
    IF n = 0 THEN << >>
    ELSE << prefix >> \o Successors(next_hash_prefix(prefix), n - 1)

\* The first MaxProbeSteps prefixes of every digest of the model
ProbePrefixes ==
    [d \in Hashes |-> Successors(read_hash_prefix(d), MaxProbeSteps)]

\* read_hash_indices(layout, hash), cut after MaxProbeSteps steps: element
\* i + 1 is the slot of probe step i.
read_hash_indices(l, hash) ==
    [i \in 1..MaxProbeSteps |-> HashIndex(l, ProbePrefixes[hash][i])]

\* Mutant of SkipWhileUsed: the first slot of the probe sequence is skipped
\* whether it is used or not.
RECURSIVE SkipWhileUsed_SkipFirst(_, _, _, _)
SkipWhileUsed_SkipFirst(l, m, prefix, seen) ==
    IF prefix \in seen THEN [found |-> FALSE]
    ELSE IF seen # {} /\ ~is_used(l, m, HashIndex(l, prefix))
         THEN [found |-> TRUE, slot |-> HashIndex(l, prefix)]
         ELSE SkipWhileUsed_SkipFirst(l, m, next_hash_prefix(prefix), seen \cup {prefix})

\* read_hash_indices(layout, hash).skip_while(is_used).next(): the first
\* unused slot of the probe sequence.  Multiplying by 31 permutes the u128
\* values, so the prefixes of a walk repeat exactly when the first one comes
\* back; a walk that closes its cycle over used slots only never ends.
RECURSIVE SkipWhileUsed(_, _, _, _)
SkipWhileUsed(l, m, prefix, seen) ==
    IF prefix \in seen THEN [found |-> FALSE]
    ELSE IF ~is_used(l, m, HashIndex(l, prefix))
         THEN [found |-> TRUE, slot |-> HashIndex(l, prefix)]
         ELSE SkipWhileUsed(l, m, next_hash_prefix(prefix), seen \cup {prefix})

\* Mutant of hash_matches: only the two words of the probe prefix are compared.
hash_matches_PrefixOnly(l, m, idx, hash) ==
    /\ write_bytes(hash, 1) = get_hash1(l, m, idx)
    /\ write_bytes(hash, 2) = get_hash2(l, m, idx)

\* ------------------------------------------------------------------------
\* Index (reader)
\* ------------------------------------------------------------------------
hash_matches(l, m, idx, hash) ==
    /\ write_bytes(hash, 1) = get_hash1(l, m, idx)
    /\ write_bytes(hash, 2) = get_hash2(l, m, idx)
    /\ write_bytes(hash, 3) = get_hash3(l, m, idx)

\* read_hash_indices(..).take_while(is_used).filter(hash_matches).map(get_value)
\* consumed to its end.  outcome "end": the iterator returned None after
\* yielding `values`; "loop": the walk closed its cycle without meeting an
\* unused slot, so the iterator yields `values` again and again, for ever.
RECURSIVE TakeWhileUsed(_, _, _, _, _)
TakeWhileUsed(l, m, hash, prefix, seen) ==
    IF prefix \in seen THEN [values |-> << >>, outcome |-> "loop"]
    ELSE LET idx == HashIndex(l, prefix)
         IN  IF ~is_used(l, m, idx) THEN [values |-> << >>, outcome |-> "end"]
             ELSE LET rest == TakeWhileUsed(l, m, hash, next_hash_prefix(prefix),
                                            seen \cup {prefix})
                      here == IF hash_matches(l, m, idx, hash)
                              THEN << get_value(l, m, idx) >>
                              ELSE << >>
                  IN  [values |-> here \o rest.values, outcome |-> rest.outcome]

\* Index::get(hash), consumed by the caller.  The remainder by a capacity
\* of zero panics when the first index is computed.
IndexGet(ix, m, hash) ==
    IF ix.layout.capacity = 0 THEN [values |-> << >>, outcome |-> "panic"]
    ELSE TakeWhileUsed(ix.layout, m, hash, read_hash_prefix(hash), {})

\* Index::open(path)
IndexOpen(m) ==
    LET l == from_file(m)
    IN  IF l.result = "Ok"
        THEN [status |-> "Ok", layout |-> l.layout, block_size |-> get_block_size(m)]
        ELSE [status |-> l.result]

NotOpen == [status |-> "None"]
NoGet == [outcome |-> "None"]

\* No index is being built or read.
BuilderIdle ==
    /\ mmap = << >>
    /\ layout = from_capacity(0)
    /\ closed = FALSE
    /\ pc = "idle"
    /\ item_count = 0
    /\ entries = << >>
    /\ index = NotOpen
    /\ got = NoGet

\* cache_guess_mapping is not running.
NoRun == [pc |-> "idle"]
NoDevice == [blocks |-> << >>, tail |-> 0]

MapperIdle ==
    /\ args = NoRun
    /\ origin = NoDevice
    /\ cache_device = NoDevice
    /\ log = << >>
    /\ collect = NoRun
    /\ find = NoRun
    /\ output = << >>

\* ------------------------------------------------------------------------
\* IndexBuilder
\* ------------------------------------------------------------------------
\* Mutant of IndexBuilderNew: the preamble is written when the file is created.
IndexBuilderNew_WithPreamble(n, block_size) ==
    LET l == from_item_count(n)
        m0 == set_preamble(Zeros(l.min_file_size))
        m1 == set_block_size(m0, block_size)
    IN  [mmap |-> set_capacity(l, m1), layout |-> l, closed |-> FALSE]

\* IndexBuilder::new(path, item_count, block_size): the file is created with
\* min_file_size zero bytes, then block size and capacity are stored.
IndexBuilderNew(n, block_size) ==
    LET l == from_item_count(n)
        m0 == Zeros(l.min_file_size)
        m1 == set_block_size(m0, block_size)
    IN  [mmap |-> set_capacity(l, m1), layout |-> l, closed |-> FALSE]

Init ==
    \E n \in ItemCounts, block_size \in BlockSizes :
        LET b == IndexBuilderNew(n, block_size)
        IN  /\ mmap = b.mmap
            /\ layout = b.layout
            /\ closed = b.closed
            /\ pc = "building"
            /\ item_count = n
            /\ entries = << >>
            /\ index = NotOpen
            /\ got = NoGet
            /\ MapperIdle

\* Mutant of Add: the assertion that the builder is not closed is missing.
Add_NoAssert(hash, value) ==
    /\ pc \in {"building", "finished"}
    /\ closed \/ added < MaxAdds
    /\ IF layout.capacity = 0
       THEN /\ pc' = "panicked"
            /\ UNCHANGED << mmap, entries >>
       ELSE LET free == SkipWhileUsed(layout, mmap, read_hash_prefix(hash), {})
            IN  IF free.found
                THEN /\ mmap' = set_entry(layout, mmap, free.slot, hash, value)
                     /\ entries' = Append(entries, [hash |-> hash, value |-> value])
                     /\ pc' = pc
                ELSE /\ pc' = "hung"
                     /\ UNCHANGED << mmap, entries >>
    /\ UNCHANGED << layout, closed, item_count, index, got >>
    /\ UNCHANGED mapper_vars

\* IndexBuilder::add(hash, value).  A failed assertion and a remainder by
\* zero abort the process; a probe walk that never meets an unused slot
\* keeps the call from returning.
Add(hash, value) ==
    /\ pc \in {"building", "finished"}
    /\ closed \/ added < MaxAdds
    /\ IF closed \/ layout.capacity = 0
       THEN /\ pc' = "panicked"
            /\ UNCHANGED << mmap, entries >>
       ELSE LET free == SkipWhileUsed(layout, mmap, read_hash_prefix(hash), {})
            IN  IF free.found
                THEN /\ mmap' = set_entry(layout, mmap, free.slot, hash, value)
                     /\ entries' = Append(entries, [hash |-> hash, value |-> value])
                     /\ pc' = pc
                ELSE /\ pc' = "hung"
                     /\ UNCHANGED << mmap, entries >>
    /\ UNCHANGED << layout, closed, item_count, index, got >>
    /\ UNCHANGED mapper_vars

\* IndexBuilder::finish()
Finish ==
    /\ pc = "building"
    /\ closed' = TRUE
    /\ mmap' = set_preamble(mmap)
    /\ pc' = "finished"
    /\ UNCHANGED << layout, item_count, entries, index, got >>
    /\ UNCHANGED mapper_vars

\* The building process is killed before it calls finish().
Kill ==
    /\ pc = "building"
    /\ pc' = "killed"
    /\ UNCHANGED << mmap, layout, closed, item_count, entries, index, got >>
    /\ UNCHANGED mapper_vars

\* A reader process calls Index::open on the file as it is now.
Open ==
    /\ index' = IndexOpen(mmap)
    /\ got' = NoGet
    /\ UNCHANGED << mmap, layout, closed, pc, item_count, entries >>
    /\ UNCHANGED mapper_vars

\* The reader consumes Index::get(hash).
Get(hash) ==
    /\ index.status = "Ok"
    /\ got.outcome \in {"None", "end"}
    /\ got' = [hash |-> hash] @@ IndexGet(index, mmap, hash)
    /\ UNCHANGED << mmap, layout, closed, pc, item_count, entries, index >>
    /\ UNCHANGED mapper_vars

\* The lengths a committed file is cut to: the boundaries of the regions
\* that Layout::from_file reads.
TruncatedLengths ==
    { 0, PREAMBLE_SIZE - 1, PREAMBLE_SIZE, BITSET_OFFSET - 1, BITSET_OFFSET,
      layout.min_file_size - 1 }

\* The committed file loses its end while no process has it mapped.
Truncate(len) ==
    /\ pc \in {"finished", "panicked"}
    /\ closed
    /\ index.status # "Ok"
    /\ len < Len(mmap)
    /\ mmap' = SubSeq(mmap, 1, len)
    /\ UNCHANGED << layout, closed, pc, item_count, entries, index, got >>
    /\ UNCHANGED mapper_vars

Next ==
    \/ \E hash \in Hashes, value \in Values : Add(hash, value)
    \/ Finish
    \/ Kill
    \/ Open
    \/ \E hash \in Hashes : Get(hash)

Spec == Init /\ [][Next]_vars

\* ------------------------------------------------------------------------
\* Committed files that lose their end: builds of at most MaxTruncatedAdds
\* entries, cut after finish() and opened again.
\* ------------------------------------------------------------------------
NextTruncated ==
    \/ \E hash \in Hashes, value \in Values : added < MaxTruncatedAdds /\ Add(hash, value)
    \/ Finish
    \/ Open
    \/ \E len \in TruncatedLengths : Truncate(len)

SpecTruncated == Init /\ [][NextTruncated]_vars

\* ------------------------------------------------------------------------
\* Layouts of larger indexes: builds without entries, for the item counts
\* up to MaxLayoutItems (their bitsets reach the second 8-byte word).
\* ------------------------------------------------------------------------
InitLayout ==
    \E n \in 0..MaxLayoutItems, block_size \in BlockSizes :
        LET b == IndexBuilderNew(n, block_size)
        IN  /\ mmap = b.mmap
            /\ layout = b.layout
            /\ closed = b.closed
            /\ pc = "building"
            /\ item_count = n
            /\ entries = << >>
            /\ index = NotOpen
            /\ got = NoGet
            /\ MapperIdle

NextLayout == Finish \/ Kill \/ Open

SpecLayout == InitLayout /\ [][NextLayout]_vars

\* ------------------------------------------------------------------------
\* cache_guess_mapping (src/src/cache_guess_mapping.rs)
\*
\* A device is a sequence of filesystem blocks, each block standing for its
\* content, and `tail` bytes of a last, short block.  collect writes the
\* index file `log` byte for byte; find reads it back into its hash map.
\* ------------------------------------------------------------------------
SECTOR_SIZE == 512
ENTRY_SIZE == HASH_BYTES + U64_SIZE

\* The origin has at most MaxOriginBlocks whole filesystem blocks.
MaxOriginBlocks == 4
\* The cache device has at most MaxCacheFsBlocks filesystem blocks.
MaxCacheFsBlocks == 4

\* The contents a filesystem block has
Contents == {1, 2}
\* The bytes after the last whole block of the origin
OriginTails == {0, 100}
\* The command lines: sizes in sectors
ArgSets ==
    { [filesystem_block_bytes |-> 1, index_block_size |-> 1, cache_block_size |-> 2] }

\* The sequences of 1 .. n elements of S
SeqsUpTo(S, n) == UNION { [1..k -> S] : k \in 1..n }

\* The devices of the model; none of them is empty.
OriginDevices ==
    { [blocks |-> b, tail |-> t] :
        b \in SeqsUpTo(Contents, MaxOriginBlocks) \cup {<< >>}, t \in OriginTails }
        \ {NoDevice}
CacheDevices ==
    { [blocks |-> b, tail |-> 0] : b \in SeqsUpTo(Contents, MaxCacheFsBlocks) }

\* Sha1::digest of a block with the given content.  Different contents have
\* different digests, and no digest is all zeros.
Sha1(content) == [i \in 1..HASH_BYTES |-> IF i = 1 THEN content ELSE 0]

\* mmap.len() of a device that is cut into blocks of block_size bytes
DeviceSize(dev, block_size) == Len(dev.blocks) * block_size + dev.tail

div_rounding_up(a, b) == (a + b - 1) \div b

\* hash_block(mmap, block, block_size): the slice
\* mmap[offset..offset + block_size] panics when it ends after the device.
hash_block(dev, block, block_size) ==
    LET offset == block_size * block
    IN  IF offset + block_size > DeviceSize(dev, block_size)
        THEN [status |-> "panic"]
        ELSE [status |-> "Ok", hash |-> Sha1(dev.blocks[block + 1])]

\* Mutant of Serialize: the offset is stored as one byte.
Serialize_Truncated(entry) ==
    entry.hash \o to_le_bytes(entry.offset, 1) \o Zeros(U64_SIZE - 1)

\* bincode::serialize(&Entry) with fixed-width integers
Serialize(entry) == entry.hash \o to_le_bytes(entry.offset, U64_SIZE)

\* bincode::deserialize::<Entry>(bytes)
Deserialize(bytes) ==
    [hash |-> SubSeq(bytes, 1, HASH_BYTES),
     offset |-> from_le_bytes(SubSeq(bytes, HASH_BYTES + 1, ENTRY_SIZE))]

fs_block_size(a) == SECTOR_SIZE * a.filesystem_block_bytes
index_block_bytes(a) == SECTOR_SIZE * a.index_block_size
entries_per_block(a) == index_block_bytes(a) \div ENTRY_SIZE
origin_block_count(a, dev) ==
    div_rounding_up(DeviceSize(dev, fs_block_size(a)), fs_block_size(a))
index_block_count(a, dev) ==
    div_rounding_up(origin_block_count(a, dev), entries_per_block(a))

\* create_file(index, 512 * index_block_count * index_block_size)
create_file(a, dev) == Zeros(SECTOR_SIZE * index_block_count(a, dev) * a.index_block_size)

\* An origin whose entries need a second block of the index file: one
\* block more than entries_per_block, the last two of them with contents
\* that the cache devices hold, the others with a content of their own.
LongOrigin(a) ==
    [blocks |-> [i \in 1..(entries_per_block(a) + 1) |->
                    IF i = entries_per_block(a) THEN 1
                    ELSE IF i = entries_per_block(a) + 1 THEN 2
                    ELSE 3],
     tail |-> 0]

\* collect has opened the origin and created the index file.
InitMapper ==
    /\ BuilderIdle
    /\ args \in ArgSets
    /\ origin \in OriginDevices \cup {LongOrigin(args)}
    /\ cache_device = NoDevice
    /\ log = create_file(args, origin)
    /\ collect = [pc |-> "scanning", origin_block |-> 0, index_block |-> 0,
                  index_entry |-> 0]
    /\ find = NoRun
    /\ output = << >>

\* One turn of the loop of collect over the origin blocks: the entry of the
\* block is written behind the entries written so far.
CollectBlock ==
    /\ collect.pc = "scanning"
    /\ collect.origin_block < origin_block_count(args, origin)
    /\ LET h == hash_block(origin, collect.origin_block, fs_block_size(args))
           index_offset == collect.index_block * index_block_bytes(args)
                               + collect.index_entry * ENTRY_SIZE
           entry == [hash |-> h.hash,
                     offset |-> collect.origin_block * fs_block_size(args)]
           full == collect.index_entry + 1 >= entries_per_block(args)
       IN  IF h.status = "panic"
           THEN /\ collect' = [collect EXCEPT !.pc = "panicked"]
                /\ UNCHANGED log
           ELSE /\ log' = CopyFromSlice(log, index_offset, Serialize(entry))
                /\ collect' =
                       [pc |-> "scanning",
                        origin_block |-> collect.origin_block + 1,
                        index_block |-> IF full THEN collect.index_block + 1
                                        ELSE collect.index_block,
                        index_entry |-> IF full THEN 0 ELSE collect.index_entry + 1]
    /\ UNCHANGED << args, origin, cache_device, find, output >>
    /\ UNCHANGED builder_vars

\* The loop of collect has ended: collect returns.
CollectReturn ==
    /\ collect.pc = "scanning"
    /\ collect.origin_block = origin_block_count(args, origin)
    /\ collect' = [collect EXCEPT !.pc = "done"]
    /\ UNCHANGED << args, origin, cache_device, log, find, output >>
    /\ UNCHANGED builder_vars

\* The entries find deserializes, in the order it reads them: every entry
\* position of every block of the index file.
ReadEntries(a, file) ==
    LET per_block == entries_per_block(a)
        blocks == div_rounding_up(Len(file), index_block_bytes(a))
    IN  [j \in 1..(blocks * per_block) |->
            Deserialize(Slice(file,
                              ((j - 1) \div per_block) * index_block_bytes(a)
                                  + ((j - 1) % per_block) * ENTRY_SIZE,
                              ENTRY_SIZE))]

\* The hash map of find: under every hash the offsets read with it, in the
\* order they were pushed.
LoadIndex(a, file) ==
    LET read == ReadEntries(a, file)
    IN  [h \in { read[j].hash : j \in DOMAIN read } |->
            LET with == SelectSeq(read, LAMBDA e : e.hash = h)
            IN  [j \in DOMAIN with |-> with[j].offset]]

cache_block_size(a) == SECTOR_SIZE * a.cache_block_size
cache_total_blocks(a, dev) == DeviceSize(dev, fs_block_size(a)) \div cache_block_size(a)
fs_blocks_per_cache_block(a) == cache_block_size(a) \div fs_block_size(a)

\* find on the index file that collect has written and on a cache device:
\* the index is loaded, and the loop over the cache blocks begins.
FindLoad(dev) ==
    /\ collect.pc = "done"
    /\ find.pc = "idle"
    /\ cache_device' = dev
    /\ find' = [pc |-> "mapping", index |-> LoadIndex(args, log),
                cache_block |-> 0, fs_block |-> 0,
                matches |-> << >>, fake_matches |-> 0]
    /\ UNCHANGED << args, origin, log, collect, output >>
    /\ UNCHANGED builder_vars

\* Mutant of CountMatch: the position in the cache block is not compared.
CountMatch_Unaligned(a, tally, fs_block, match_offset) ==
    LET origin_cache_block == match_offset \div cache_block_size(a)
    IN  [tally EXCEPT !.matches =
            IF origin_cache_block \in DOMAIN @
            THEN [@ EXCEPT ![origin_cache_block] = @ + 1]
            ELSE @ @@ (origin_cache_block :> 1)]

\* The body of the loop of find over the offsets of one hash: a vote for
\* the origin cache block when the positions agree, a fake match otherwise.
CountMatch(a, tally, fs_block, match_offset) ==
    LET origin_fs_block == match_offset \div fs_block_size(a)
        origin_cache_block == match_offset \div cache_block_size(a)
        origin_local_fs_block == origin_fs_block % fs_blocks_per_cache_block(a)
    IN  IF origin_local_fs_block = fs_block
        THEN [tally EXCEPT !.matches =
                 IF origin_cache_block \in DOMAIN @
                 THEN [@ EXCEPT ![origin_cache_block] = @ + 1]
                 ELSE @ @@ (origin_cache_block :> 1)]
        ELSE [tally EXCEPT !.fake_matches = @ + 1]

\* Mutant of CountMatches: only the first offset of a hash is counted.
CountMatches_FirstOnly(a, tally, fs_block, matches_vec) ==
    IF matches_vec = << >> THEN tally
    ELSE CountMatch(a, tally, fs_block, Head(matches_vec))

\* for match_offset in matches_vec { ... }
RECURSIVE CountMatches(_, _, _, _)
CountMatches(a, tally, fs_block, matches_vec) ==
    IF matches_vec = << >> THEN tally
    ELSE CountMatches(a, CountMatch(a, tally, fs_block, Head(matches_vec)),
                      fs_block, Tail(matches_vec))

\* One turn of the loop of find over the filesystem blocks of a cache block
FindFsBlock ==
    /\ find.pc = "mapping"
    /\ find.cache_block < cache_total_blocks(args, cache_device)
    /\ find.fs_block < fs_blocks_per_cache_block(args)
    /\ LET h == hash_block(cache_device,
                           find.cache_block * fs_blocks_per_cache_block(args)
                               + find.fs_block,
                           fs_block_size(args))
       IN  IF h.status = "panic"
           THEN find' = [find EXCEPT !.pc = "panicked"]
           ELSE LET matches_vec == IF h.hash \in DOMAIN find.index
                                   THEN find.index[h.hash] ELSE << >>
                    tally == CountMatches(args,
                                          [matches |-> find.matches,
                                           fake_matches |-> find.fake_matches],
                                          find.fs_block, matches_vec)
                IN  find' = [find EXCEPT !.matches = tally.matches,
                                         !.fake_matches = tally.fake_matches,
                                         !.fs_block = @ + 1]
    /\ UNCHANGED << args, origin, cache_device, log, collect, output >>
    /\ UNCHANGED builder_vars

\* The orders in which a hash map with the keys S is iterated
IterOrders(S) ==
    { s \in [1..Cardinality(S) -> S] : { s[i] : i \in DOMAIN s } = S }

\* Mutant of sort_by_key: the key is the count, not Reverse(count).
RECURSIVE sort_by_key_Ascending(_, _)
sort_by_key_Ascending(match_vec, matches) ==
    IF match_vec = << >> THEN << >>
    ELSE LET sorted == sort_by_key_Ascending(SubSeq(match_vec, 1, Len(match_vec) - 1),
                                             matches)
             x == match_vec[Len(match_vec)]
             n == Cardinality({ i \in DOMAIN sorted : matches[sorted[i]] <= matches[x] })
         IN  SubSeq(sorted, 1, n) \o << x >> \o SubSeq(sorted, n + 1, Len(sorted))

\* match_vec.sort_by_key(|(_, count)| Reverse(count)): a stable sort, so the
\* candidates with equal counts stay in the order of the iteration.
RECURSIVE sort_by_key(_, _)
sort_by_key(match_vec, matches) ==
    IF match_vec = << >> THEN << >>
    ELSE LET sorted == sort_by_key(SubSeq(match_vec, 1, Len(match_vec) - 1), matches)
             x == match_vec[Len(match_vec)]
             n == Cardinality({ i \in DOMAIN sorted : matches[sorted[i]] >= matches[x] })
         IN  SubSeq(sorted, 1, n) \o << x >> \o SubSeq(sorted, n + 1, Len(sorted))

\* The lines find prints for a cache block: the first candidate as the
\* mapping, the others behind "# ", then "# no match found" when there was
\* no candidate, then the fake matches when there are any.
Report(a, cache_block, match_vec, matches, fake_matches) ==
    [cache_block |-> cache_block,
     lines |-> [i \in DOMAIN match_vec |->
                   [prefix |-> IF i = 1 THEN "" ELSE "# ",
                    cache_block |-> cache_block,
                    origin_cache_block |-> match_vec[i],
                    count |-> matches[match_vec[i]],
                    of |-> fs_blocks_per_cache_block(a)]],
     no_match |-> match_vec = << >>,
     fake_matches |-> IF fake_matches # 0 THEN << fake_matches >> ELSE << >>]

\* Mutant of FindReport: the tally is kept for the next cache block.
FindReport_NoReset ==
    /\ find.pc = "mapping"
    /\ find.cache_block < cache_total_blocks(args, cache_device)
    /\ find.fs_block = fs_blocks_per_cache_block(args)
    /\ \E order \in IterOrders(DOMAIN find.matches) :
          output' = Append(output,
                           Report(args, find.cache_block,
                                  sort_by_key(order, find.matches),
                                  find.matches, find.fake_matches))
    /\ find' = [find EXCEPT !.cache_block = @ + 1, !.fs_block = 0]
    /\ UNCHANGED << args, origin, cache_device, log, collect >>
    /\ UNCHANGED builder_vars

\* The filesystem blocks of the cache block are counted: its candidates are
\* sorted and printed, and the loop goes on with the next cache block.
FindReport ==
    /\ find.pc = "mapping"
    /\ find.cache_block < cache_total_blocks(args, cache_device)
    /\ find.fs_block = fs_blocks_per_cache_block(args)
    /\ \E order \in IterOrders(DOMAIN find.matches) :
          output' = Append(output,
                           Report(args, find.cache_block,
                                  sort_by_key(order, find.matches),
                                  find.matches, find.fake_matches))
    /\ find' = [find EXCEPT !.cache_block = @ + 1, !.fs_block = 0,
                            !.matches = << >>, !.fake_matches = 0]
    /\ UNCHANGED << args, origin, cache_device, log, collect >>
    /\ UNCHANGED builder_vars

\* The loop over the cache blocks has ended: find returns.
FindReturn ==
    /\ find.pc = "mapping"
    /\ find.cache_block = cache_total_blocks(args, cache_device)
    /\ find' = [find EXCEPT !.pc = "done"]
    /\ UNCHANGED << args, origin, cache_device, log, collect, output >>
    /\ UNCHANGED builder_vars

NextMapper ==
    \/ CollectBlock
    \/ CollectReturn
    \/ \E dev \in CacheDevices : FindLoad(dev)
    \/ FindFsBlock
    \/ FindReport
    \/ FindReturn

SpecMapper == InitMapper /\ [][NextMapper]_vars

\* ------------------------------------------------------------------------
\* The end-to-end run: the origin is two cache blocks A and B, each of
\* filesystem blocks with different contents, and the cache device is a
\* copy of B.
\* ------------------------------------------------------------------------
EndToEndContents == {1, 2, 3, 4}

AllDistinct(blocks) ==
    \A i, j \in DOMAIN blocks : i # j => blocks[i] # blocks[j]

RegionA(a, dev) == SubSeq(dev.blocks, 1, fs_blocks_per_cache_block(a))
RegionB(a, dev) ==
    SubSeq(dev.blocks, fs_blocks_per_cache_block(a) + 1,
           2 * fs_blocks_per_cache_block(a))

InitEndToEnd ==
    /\ BuilderIdle
    /\ args \in ArgSets
    /\ origin \in { [blocks |-> b, tail |-> 0] :
                       b \in [1..(2 * fs_blocks_per_cache_block(args)) -> EndToEndContents] }
    /\ AllDistinct(RegionA(args, origin))
    /\ AllDistinct(RegionB(args, origin))
    /\ RegionA(args, origin) # RegionB(args, origin)
    /\ cache_device = NoDevice
    /\ log = create_file(args, origin)
    /\ collect = [pc |-> "scanning", origin_block |-> 0, index_block |-> 0,
                  index_entry |-> 0]
    /\ find = NoRun
    /\ output = << >>

NextEndToEnd ==
    \/ CollectBlock
    \/ CollectReturn
    \/ FindLoad([blocks |-> RegionB(args, origin), tail |-> 0])
    \/ FindFsBlock
    \/ FindReport
    \/ FindReturn

SpecEndToEnd == InitEndToEnd /\ [][NextEndToEnd]_vars

\* ------------------------------------------------------------------------
\* Properties
\* ------------------------------------------------------------------------
\* The slots marked used in the presence bitset
UsedSlots(l, m) == { s \in 0..(l.capacity - 1) : is_used(l, m, s) }

\* The values added with the digest d, in the order of the add calls
ValuesOf(d) ==
    LET with == SelectSeq(entries, LAMBDA e : e.hash = d)
    IN  [i \in 1..Len(with) |-> with[i].value]

Range(f) == { f[i] : i \in DOMAIN f }

\* The reader has consumed get(d) on the finished index.
HasGot(d) ==
    /\ closed
    /\ index.status = "Ok"
    /\ got.outcome # "None"
    /\ got.hash = d

\* C1 (round trip): after new(n) with n >= 1, one add(d, v), finish() and
\* Index::open, get(d) yields exactly the sequence << v >> and then ends.
C1_RoundTrip ==
    (item_count >= 1 /\ added = 1 /\ HasGot(entries[1].hash))
        => (got.values = << entries[1].value >> /\ got.outcome = "end")

\* C2 (duplicate content): in a build of at most item_count adds in which the
\* digest d was added with exactly two values, and these differ, get(d) on
\* the finished index yields each of the two values exactly once and nothing
\* else.
C2_DuplicateContent ==
    \A d \in Hashes :
        ( /\ added <= item_count
          /\ Len(ValuesOf(d)) = 2
          /\ ValuesOf(d)[1] # ValuesOf(d)[2]
          /\ HasGot(d) )
            => ( /\ got.outcome = "end"
                 /\ Len(got.values) = 2
                 /\ Range(got.values) = Range(ValuesOf(d)) )

\* C3 (uncommitted index): in every state of a build before finish() has run
\* -- after new, after any adds, after the build was killed or an add did not
\* return -- Index::open fails with InvalidData (CorruptIndex) and no reader
\* holds an Index; and the preamble appears in the file in a step of finish()
\* only.
C3_Uncommitted ==
    /\ [](~closed => /\ IndexOpen(mmap).status = "InvalidData"
                     /\ index.status \in {"None", "InvalidData"})
    /\ [][(check_preamble(mmap) # "Ok" /\ check_preamble(mmap') = "Ok") => Finish]_vars

\* C3 witness: a build with entries was killed before finish() and a reader
\* has tried to open its file.
C3_Witness ==
    /\ pc = "killed"
    /\ added >= 2
    /\ index.status = "InvalidData"

\* C4 (get terminates): on an index built with at most item_count adds and
\* then finished, the sequence produced by get(digest) is finite for every
\* digest: the probe walk reaches an unused slot.
C4_GetTerminates ==
    \A d \in Hashes :
        (added <= item_count /\ HasGot(d)) => got.outcome # "loop"

\* C5 (add completes): on an unfinished builder to which fewer than
\* item_count entries have been added, add(d, v) returns and has stored
\* (d, v) in a slot that was unused before the call.
C5_AddCompletes ==
    [][\A h \in Hashes, v \in Values :
          (pc = "building" /\ added < item_count /\ Add(h, v))
              => /\ pc' = "building"
                 /\ entries' = Append(entries, [hash |-> h, value |-> v])
                 /\ \E s \in 0..(layout.capacity - 1) :
                        /\ ~is_used(layout, mmap, s)
                        /\ is_used(layout, mmap', s)
                        /\ hash_matches(layout, mmap', s, h)
                        /\ get_value(layout, mmap', s) = v
      ]_vars

C7_CapacityLaw ==
    /\ layout.capacity = item_count + item_count \div 2
    /\ get_capacity(mmap) = item_count + item_count \div 2
    /\ from_item_count(1000).capacity = 1500
    /\ from_item_count(3).capacity = 4

\* C7 witness: entries were added and the build was finished; the header
\* still holds the capacity 3 of the 2 declared items.
C7_Witness ==
    /\ item_count = 2
    /\ added = 2
    /\ closed
    /\ get_capacity(mmap) = 3

StrictlyIncreasing(l) ==
    /\ BITSET_OFFSET < l.hash1_offset
    /\ l.hash1_offset < l.hash2_offset
    /\ l.hash2_offset < l.hash3_offset
    /\ l.hash3_offset < l.value_offset
    /\ l.value_offset < l.min_file_size

Aligned(l) ==
    \A offset \in { BITSET_OFFSET, l.hash1_offset, l.hash2_offset, l.hash3_offset,
                    l.value_offset, l.min_file_size } : offset % U64_SIZE = 0

AllEmpty(l) ==
    { l.hash1_offset, l.hash2_offset, l.hash3_offset, l.value_offset,
      l.min_file_size } = { BITSET_OFFSET }

\* C8 as stated (layout monotonicity): for any capacity, 0 included, the
\* offsets of the layout are strictly increasing and multiples of 8.
C8_Original == StrictlyIncreasing(layout) /\ Aligned(layout)

\* C8 as amended: the offsets are multiples of 8 for any capacity; they are
\* strictly increasing for a capacity of at least 1; for the capacity 0 all
\* regions are empty and every offset equals the bitset offset 64.  The same
\* holds of the layout a reader recomputes from the header.
C8_LayoutMonotonicity ==
    /\ Aligned(layout)
    /\ layout.capacity >= 1 => StrictlyIncreasing(layout)
    /\ layout.capacity = 0 => AllEmpty(layout)
    /\ index.status = "Ok" =>
           /\ index.layout = layout
           /\ Aligned(index.layout)
           /\ index.layout.capacity >= 1 => StrictlyIncreasing(index.layout)

\* C8 witness: a reader has recomputed the layout of an index whose bitset
\* takes 9 bytes and is padded to 16.
C8_Witness ==
    /\ index.status = "Ok"
    /\ index.layout.capacity = 66
    /\ index.layout.hash1_offset = BITSET_OFFSET + 2 * U64_SIZE

\* C9 (insert after finish): once finish() has run, every add(d, v) aborts
\* and leaves the file as it was: no bit of the bitset, no hash word and no
\* value word changes, and no entry is added.
C9_AddAfterFinish ==
    [][(closed /\ \E h \in Hashes, v \in Values : Add(h, v))
          => /\ pc' = "panicked"
             /\ mmap' = mmap
             /\ entries' = entries
             /\ UsedSlots(layout, mmap') = UsedSlots(layout, mmap)
      ]_vars

\* C9 witness: add was called on a finished builder that holds entries.
C9_Witness ==
    /\ pc = "panicked"
    /\ closed
    /\ added >= 1

EndToEndReport ==
    [cache_block |-> 0,
     lines |-> << [prefix |-> "", cache_block |-> 0, origin_cache_block |-> 1,
                   count |-> fs_blocks_per_cache_block(args),
                   of |-> fs_blocks_per_cache_block(args)] >>,
     no_match |-> FALSE,
     fake_matches |-> << >>]

\* C11 as stated (end to end): when the origin is two different cache blocks
\* A and B, each of pairwise different filesystem blocks, and the cache is a
\* copy of B, find prints cache block 0 -> origin cache block 1 with all the
\* votes, no other candidate and no fake match.
C11_Original ==
    Len(output) >= 1 => output[1] = EndToEndReport

\* C11 (end to end), amended: the same when moreover no block of A has the
\* content of a block of B, that is when all the filesystem blocks of the
\* origin differ.
C11_EndToEnd ==
    (AllDistinct(origin.blocks) /\ Len(output) >= 1) => output[1] = EndToEndReport

C11_Witness ==
    /\ AllDistinct(origin.blocks)
    /\ cache_device.blocks = RegionB(args, origin)
    /\ find.pc = "done"
    /\ output = << EndToEndReport >>

\* The votes of the origin cache block P in a tally
Votes(matches, P) == IF P \in DOMAIN matches THEN matches[P] ELSE 0

\* The origin cache blocks that hold at least one whole filesystem block
OriginCacheBlocks ==
    { P \in 0..Len(origin.blocks) :
        P * fs_blocks_per_cache_block(args) < Len(origin.blocks) }

\* The positions of the filesystem blocks in a cache block
Positions == 0..(fs_blocks_per_cache_block(args) - 1)

\* The origin holds the content X at position j of its cache block P.
HoldsAt(P, j, X) ==
    LET i == P * fs_blocks_per_cache_block(args) + j
    IN  i < Len(origin.blocks) /\ origin.blocks[i + 1] = X

\* The content at position k of the cache block c of the cache device
CacheAt(c, k) == cache_device.blocks[c * fs_blocks_per_cache_block(args) + k + 1]

\* find has counted position k of a cache block in this step.
CountedPosition ==
    /\ find.pc = "mapping"
    /\ find'.pc = "mapping"
    /\ find'.cache_block = find.cache_block
    /\ find'.fs_block = find.fs_block + 1

\* find has printed the lines of a cache block in this step.
Printed == Len(output') = Len(output) + 1

\* C12 (false-positive resistance): when find counts position k of a cache
\* block that holds the content X there, no origin cache block P that does
\* not hold X at its position k gains a vote, and every copy of X at another
\* position j of an origin cache block adds one fake match; a cache block is
\* printed with all the votes for P only when P holds at every position the
\* content the cache block holds there.
C12_FalsePositive ==
    [][ /\ CountedPosition =>
             LET k == find.fs_block
                 X == CacheAt(find.cache_block, k)
             IN  /\ \A P \in OriginCacheBlocks :
                        ~HoldsAt(P, k, X) =>
                            Votes(find'.matches, P) = Votes(find.matches, P)
                 /\ find'.fake_matches = find.fake_matches
                        + Cardinality({ pj \in OriginCacheBlocks \X Positions :
                                          pj[2] # k /\ HoldsAt(pj[1], pj[2], X) })
        /\ Printed =>
             LET printed == output'[Len(output')]
             IN  \A i \in DOMAIN printed.lines :
                     printed.lines[i].count = fs_blocks_per_cache_block(args) =>
                         \A k \in Positions :
                             HoldsAt(printed.lines[i].origin_cache_block, k,
                                     CacheAt(printed.cache_block, k)) ]_vars

\* The origin holds a content at position j of P and at another position k
\* of Q, the cache block holds it at k only, and find has counted the cache
\* block: P has no vote, and the copy in P is a fake match.
C12_Witness ==
    /\ find.pc = "mapping"
    /\ find.cache_block < cache_total_blocks(args, cache_device)
    /\ find.fs_block = fs_blocks_per_cache_block(args)
    /\ \E P, Q \in OriginCacheBlocks, j, k \in Positions :
          LET X == CacheAt(find.cache_block, k)
          IN  /\ P # Q /\ j # k
              /\ HoldsAt(P, j, X) /\ HoldsAt(Q, k, X)
              /\ ~HoldsAt(P, k, X)
              /\ \A kk \in Positions : kk # k => CacheAt(find.cache_block, kk) # X
              /\ P \notin DOMAIN find.matches
              /\ Q \in DOMAIN find.matches
              /\ find.fake_matches >= 1

\* The capacities of the indexes of the model
Capacities == { from_item_count(n).capacity : n \in ItemCounts } \ {0}

\* The slots of the probe steps of every digest, for every capacity
ProbeSlots ==
    [c \in Capacities |-> [d \in Hashes |-> read_hash_indices([capacity |-> c], d)]]

\* The first probe step (counted from 1) at which the walk visits slot s
FirstVisit(walk, s) ==
    CHOOSE i \in DOMAIN walk : walk[i] = s /\ \A j \in 1..(i - 1) : walk[j] # s

\* How often the value v occurs in a sequence
Count(seq, v) == Cardinality({ i \in DOMAIN seq : seq[i] = v })

\* C13 (chain contiguity): after any adds, the slot of every stored entry
\* (d, v) is visited by the probe sequence of d, and every slot the sequence
\* visits before it reaches that slot is used; so get(d) yields every value
\* added with d before it meets an unused slot.
C13_ChainContiguity ==
    layout.capacity > 0 =>
        \A d \in Hashes :
            LET walk == ProbeSlots[layout.capacity][d]
            IN  /\ \A s \in UsedSlots(layout, mmap) :
                       hash_matches(layout, mmap, s, d) =>
                           /\ \E i \in DOMAIN walk : walk[i] = s
                           /\ \A j \in 1..(FirstVisit(walk, s) - 1) :
                                  is_used(layout, mmap, walk[j])
                /\ (HasGot(d) /\ got.outcome # "panic") =>
                       \A v \in Values : Count(ValuesOf(d), v) <= Count(got.values, v)

\* Two entries with one digest are stored, the second one in a slot that
\* the probe sequence reaches after the used slot of the first one, and
\* get has been consumed for the digest.
C13_Witness ==
    /\ layout.capacity > 0
    /\ \E d \in Hashes, s \in UsedSlots(layout, mmap) :
          LET walk == ProbeSlots[layout.capacity][d]
          IN  /\ hash_matches(layout, mmap, s, d)
              /\ \E i \in DOMAIN walk : walk[i] = s
              /\ FirstVisit(walk, s) > 1
              /\ Len(ValuesOf(d)) = 2
              /\ HasGot(d)

\* The three hash words stored in slot s, 24 bytes
StoredWords(l, m, s) ==
    Slice(m, l.hash1_offset + U64_SIZE * s, U64_SIZE)
        \o Slice(m, l.hash2_offset + U64_SIZE * s, U64_SIZE)
        \o Slice(m, l.hash3_offset + U64_SIZE * s, U64_SIZE)

\* The probe steps (counted from 1) of a walk that visit an unused slot
UnusedSteps(walk) == { i \in DOMAIN walk : ~is_used(layout, mmap, walk[i]) }

Min(S) == CHOOSE x \in S : \A y \in S : x <= y

\* The slots a walk visits before its first unused slot, in probe order
VisitedBeforeUnused(walk) ==
    IF UnusedSteps(walk) = {} THEN walk
    ELSE SubSeq(walk, 1, Min(UnusedSteps(walk)) - 1)

\* The values of those slots a walk visits before its first unused slot
\* that store the digest d in all their bits, in probe order
MatchingValuesOn(walk, d) ==
    LET visited == VisitedBeforeUnused(walk)
        matching == SelectSeq(visited,
                              LAMBDA s : StoredWords(layout, mmap, s)
                                             = d \o Zeros(3 * U64_SIZE - HASH_BYTES))
    IN  [i \in DOMAIN matching |-> get_value(layout, mmap, matching[i])]

MatchingValues(d) == MatchingValuesOn(ProbeSlots[layout.capacity][d], d)

\* C14 (lookup result): get(d) yields, in probe order, exactly the values of
\* the slots that its probe sequence visits before the first unused slot
\* and that store d in all 160 bits; it ends at the first unused slot, and
\* it does not end while the sequence meets used slots only.
C14_LookupResult ==
    \A d \in Hashes :
        (HasGot(d) /\ got.outcome # "panic") =>
            LET walk == ProbeSlots[layout.capacity][d]
            IN  /\ got.outcome = "end" <=> UnusedSteps(walk) # {}
                /\ got.outcome = "end" => got.values = MatchingValues(d)

\* get(d) has ended after it yielded a value and passed over a used slot
\* that stores another digest with the same first 16 bytes.
C14_Witness ==
    \E d \in Hashes :
        /\ HasGot(d)
        /\ got.outcome = "end"
        /\ got.values # << >>
        /\ LET visited == VisitedBeforeUnused(ProbeSlots[layout.capacity][d])
           IN  \E i \in DOMAIN visited :
                   /\ StoredWords(layout, mmap, visited[i]) # d \o Zeros(3 * U64_SIZE - HASH_BYTES)
                   /\ SubSeq(StoredWords(layout, mmap, visited[i]), 1, U128_SIZE)
                          = read_hash_prefix(d)

\* Digests with the two top bytes of the probe prefix set (offsets 14, 15)
MkWideHash(low, top) ==
    [i \in 1..HASH_BYTES |->
        IF i = U128_SIZE - 1 THEN low ELSE IF i = U128_SIZE THEN top ELSE 0]

\* The digests the probe law is computed for
ProbeDigests ==
    Hashes \cup { MkWideHash(1, 0), MkWideHash(255, 255), MkWideHash(200, 7) }

\* base^exp mod modulus
RECURSIVE PowerMod(_, _, _)
PowerMod(base, exp, modulus) ==
    IF exp = 0 THEN 1 % modulus
    ELSE (PowerMod(base, exp - 1, modulus) * base) % modulus

\* (x * 31^i) mod 2^16
RECURSIVE TimesPower31(_, _)
TimesPower31(x, i) ==
    IF i = 0 THEN x
    ELSE (TimesPower31(x, i - 1) * MULTIPLIER) % (BYTE_RANGE * BYTE_RANGE)

\* ((p0 * 31^i) mod 2^128) mod capacity for a digest whose prefix is
\* p0 = x * 256^14 with x < 2^16: the product is (x * 31^i) * 256^14, and
\* modulo 2^128 it is ((x * 31^i) mod 2^16) * 256^14.
ClosedSlot(d, i, capacity) ==
    LET x == d[U128_SIZE - 1] + BYTE_RANGE * d[U128_SIZE]
    IN  (TimesPower31(x, i) * PowerMod(BYTE_RANGE, U128_SIZE - 2, capacity))
            % capacity

\* The probe law, computed: at every step the slot of the iterated prefix
\* is the slot of the closed form.
ProbeLaw ==
    \A capacity \in 1..MaxProbeCapacity, d \in ProbeDigests :
        LET prefixes == Successors(read_hash_prefix(d), MaxProbeSteps)
        IN  \A i \in 1..MaxProbeSteps :
                HashIndex([capacity |-> capacity], prefixes[i])
                    = ClosedSlot(d, i - 1, capacity)

\* The slots of the closed form for the capacities and digests of the builds
ClosedSlots ==
    [c \in Capacities |->
        [d \in Hashes |-> [i \in 1..MaxProbeSteps |-> ClosedSlot(d, i - 1, c)]]]

\* An add(hash, value) has returned in this step.
AddReturned(hash, value) ==
    entries' = Append(entries, [hash |-> hash, value |-> value])

\* C15 (probe sequence): for every digest and every capacity >= 1 the slot
\* of probe step i is ((p0 * 31^i) mod 2^128) mod capacity, p0 being the
\* little-endian value of the first 16 bytes of the digest; add stores its
\* entry in the first unused slot of that sequence, and get yields the
\* matching values of that sequence up to its first unused slot.
C15_ProbeSequence ==
    /\ [](ProbeLaw)
    /\ [](\A d \in Hashes :
              (HasGot(d) /\ got.outcome = "end") =>
                  got.values = MatchingValuesOn(ClosedSlots[layout.capacity][d], d))
    /\ [][\A d \in Hashes, v \in Values :
              AddReturned(d, v) =>
                  LET walk == ClosedSlots[layout.capacity][d]
                  IN  /\ UnusedSteps(walk) # {}
                      /\ UsedSlots(layout, mmap') \ UsedSlots(layout, mmap)
                             = { walk[Min(UnusedSteps(walk))] }]_vars

\* The multiplication has wrapped on the way to the slot of an entry: the
\* entry was stored at the fourth probe step or later, and get has yielded
\* it.
C15_Witness ==
    \E d \in Hashes, s \in UsedSlots(layout, mmap) :
        LET walk == ClosedSlots[layout.capacity][d]
        IN  /\ hash_matches(layout, mmap, s, d)
            /\ \E i \in DOMAIN walk : walk[i] = s
            /\ FirstVisit(walk, s) >= 4
            /\ HasGot(d)
            /\ got.outcome = "end"
            /\ Len(got.values) >= 2

\* What the file holds of slot s: the presence bit, the three hash words
\* and the value
SlotContent(m, s) ==
    [used |-> is_used(layout, m, s),
     words |-> StoredWords(layout, m, s),
     value |-> get_value(layout, m, s)]

\* C16 (frame of add): an add(d, v) that returns changes exactly one slot,
\* the first unused slot of the probe sequence of d, from unused to used
\* with the digest d and the value v; the bit, the hash words and the value
\* of every other slot stay, and so do the preamble bytes, the block size
\* and the capacity of the header and the length of the file.  No step
\* changes a used slot, and the used slots are as many as the adds that
\* have returned.
C16_AddFrame ==
    /\ [](Cardinality(UsedSlots(layout, mmap)) = added)
    /\ [][ /\ mmap' # mmap =>
                  \A s \in UsedSlots(layout, mmap) :
                      SlotContent(mmap', s) = SlotContent(mmap, s)
           /\ \A d \in Hashes, v \in Values :
                  (entries' # entries /\ AddReturned(d, v)) =>
                      LET walk == ProbeSlots[layout.capacity][d]
                          s == walk[Min(UnusedSteps(walk))]
                      IN  /\ UnusedSteps(walk) # {}
                          /\ SlotContent(mmap', s)
                                 = [used |-> TRUE,
                                    words |-> d \o Zeros(3 * U64_SIZE - HASH_BYTES),
                                    value |-> v]
                          /\ \A t \in (0..(layout.capacity - 1)) \ {s} :
                                 SlotContent(mmap', t) = SlotContent(mmap, t)
                          /\ Slice(mmap', 0, BITSET_OFFSET) = Slice(mmap, 0, BITSET_OFFSET)
                          /\ get_block_size(mmap') = get_block_size(mmap)
                          /\ get_capacity(mmap') = get_capacity(mmap)
                          /\ Len(mmap') = Len(mmap) ]_vars

\* Three adds have returned, the last one with a digest that was added
\* before, and three slots are used.
C16_Witness ==
    /\ added = 3
    /\ entries[3].hash = entries[1].hash
    /\ Cardinality(UsedSlots(layout, mmap)) = 3

\* The index hits of the positions 0 .. n - 1 of the cache block c: the
\* pairs of a position k and the offset o of an origin block that has the
\* content of the cache block at k.
Hits(c, n) ==
    { h \in (0..(n - 1)) \X { i * fs_block_size(args) : i \in 0..(Len(origin.blocks) - 1) } :
        origin.blocks[h[2] \div fs_block_size(args) + 1] = CacheAt(c, h[1]) }

\* The hit (k, o) is aligned: o lies at position k of its origin cache block.
IsAligned(h) ==
    (h[2] \div fs_block_size(args)) % fs_blocks_per_cache_block(args) = h[1]

\* The sum of the counts of a tally
RECURSIVE SumOf(_)
SumOf(matches) ==
    IF DOMAIN matches = {} THEN 0
    ELSE LET P == CHOOSE x \in DOMAIN matches : TRUE
         IN  matches[P] + SumOf([Q \in DOMAIN matches \ {P} |-> matches[Q]])

\* C17 (voting partition): while find counts the cache block c, every hit
\* (k, o) of the positions counted so far is counted once: as a vote for
\* o / cacheBlockSize when (o / blockSize) mod fsBlocksPerCacheBlock = k,
\* as a fake match otherwise.  The tally holds the candidates with a vote
\* and nothing of the cache blocks before c, so the votes and the fake
\* matches of c sum to the number of its hits; what is printed for a cache
\* block sums to the number of its hits too.
C17_VotingPartition ==
    /\ (find.pc = "mapping" /\ find.cache_block < cache_total_blocks(args, cache_device)) =>
           LET hits == Hits(find.cache_block, find.fs_block)
               votes(P) == { h \in hits : IsAligned(h) /\ h[2] \div cache_block_size(args) = P }
           IN  /\ DOMAIN find.matches = { P \in OriginCacheBlocks : votes(P) # {} }
               /\ \A P \in DOMAIN find.matches : find.matches[P] = Cardinality(votes(P))
               /\ find.fake_matches = Cardinality({ h \in hits : ~IsAligned(h) })
               /\ SumOf(find.matches) + find.fake_matches = Cardinality(hits)
    /\ \A r \in DOMAIN output :
           LET counts == [i \in DOMAIN output[r].lines |-> output[r].lines[i].count]
               fake == IF output[r].fake_matches = << >> THEN 0
                       ELSE output[r].fake_matches[1]
           IN  SumOf(counts) + fake
                   = Cardinality(Hits(output[r].cache_block, fs_blocks_per_cache_block(args)))

\* The second cache block is counted, with votes and fake matches, after
\* the first one was printed with votes and fake matches of its own.
C17_Witness ==
    /\ find.pc = "mapping"
    /\ find.cache_block = 1
    /\ find.fs_block = fs_blocks_per_cache_block(args)
    /\ find.matches # << >>
    /\ find.fake_matches >= 1
    /\ Len(output) = 1
    /\ output[1].lines # << >>
    /\ output[1].fake_matches # << >>

\* The aligned hits of the cache block c that vote for the origin cache
\* block P
VotesFor(c, P) ==
    { h \in Hits(c, fs_blocks_per_cache_block(args)) :
        IsAligned(h) /\ h[2] \div cache_block_size(args) = P }

\* The origin cache blocks that have a vote of the cache block c
Candidates(c) == { P \in OriginCacheBlocks : VotesFor(c, P) # {} }

\* C18 (ranking and no match): for every cache block the candidates are
\* printed in non-increasing order of their votes, the first one as the
\* mapping and the others as alternatives behind "# "; every origin cache
\* block with at least one vote is printed exactly once, with its votes;
\* "no match" is printed exactly when no origin cache block has a vote,
\* whether there are fake matches or not.
C18_Ranking ==
    \A r \in DOMAIN output :
        LET lines == output[r].lines
            c == output[r].cache_block
        IN  /\ \A i, j \in DOMAIN lines : i < j => lines[i].count >= lines[j].count
            /\ \A i \in DOMAIN lines : lines[i].prefix = IF i = 1 THEN "" ELSE "# "
            /\ { lines[i].origin_cache_block : i \in DOMAIN lines } = Candidates(c)
            /\ Len(lines) = Cardinality(Candidates(c))
            /\ \A i \in DOMAIN lines :
                   /\ lines[i].cache_block = c
                   /\ lines[i].count = Cardinality(VotesFor(c, lines[i].origin_cache_block))
            /\ output[r].no_match <=> Candidates(c) = {}

\* One cache block was printed with a mapping and an alternative of fewer
\* votes, another one with "no match" and fake matches.
C18_Witness ==
    \E r, q \in DOMAIN output :
        /\ Len(output[r].lines) = 2
        /\ output[r].lines[1].count > output[r].lines[2].count
        /\ output[q].no_match
        /\ output[q].fake_matches # << >>

\* C19 (origin scan): for an origin of S bytes and a block size B the scan
\* records for the blocks i = 0 .. ceil(S / B) - 1, in this order, one entry
\* (digest of block i, i * B) each, also when the last block is short, and
\* it runs to completion.
C19_OriginScan ==
    /\ collect.pc # "panicked"
    /\ collect.pc \in {"scanning", "done"} =>
           LET recorded == ReadEntries(args, log)
           IN  /\ \A i \in 0..(collect.origin_block - 1) :
                      /\ recorded[i + 1].offset = i * fs_block_size(args)
                      /\ i < Len(origin.blocks) =>
                             recorded[i + 1].hash = Sha1(origin.blocks[i + 1])
               /\ \A j \in DOMAIN recorded :
                      j > collect.origin_block =>
                          recorded[j] = [hash |-> Zeros(HASH_BYTES), offset |-> 0]
    /\ collect.pc = "done" =>
           collect.origin_block
               = div_rounding_up(DeviceSize(origin, fs_block_size(args)),
                                 fs_block_size(args))

\* The entries of the hash map of find under the digests that are not all
\* zeros: pairs of a digest and a position in its vector
StoredEntries ==
    UNION { { << h, i >> : i \in DOMAIN find.index[h] } :
                h \in DOMAIN find.index \ {Zeros(HASH_BYTES)} }

\* The index of find holds every origin offset at most once, and all its
\* offsets are multiples of the block size; the entry positions of the
\* index file that collect left empty (all zeros) are not counted.
OffsetsOnce ==
    /\ \A e, f \in StoredEntries :
           find.index[e[1]][e[2]] = find.index[f[1]][f[2]] => e = f
    /\ \A e \in StoredEntries : find.index[e[1]][e[2]] % fs_block_size(args) = 0

\* C20 (vote bound): when the index holds every origin offset at most once,
\* all offsets are multiples of the block size and the cache block size is
\* a multiple of the block size, no candidate of a cache block has more
\* votes than the cache block has filesystem blocks, so no printed match is
\* above 100%.
C20_VoteBound ==
    (/\ find.pc \in {"mapping", "done"}
     /\ OffsetsOnce
     /\ cache_block_size(args) % fs_block_size(args) = 0) =>
        /\ \A P \in DOMAIN find.matches :
               find.matches[P] <= fs_blocks_per_cache_block(args)
        /\ \A r \in DOMAIN output : \A i \in DOMAIN output[r].lines :
               /\ output[r].lines[i].count <= output[r].lines[i].of
               /\ output[r].lines[i].of = fs_blocks_per_cache_block(args)

\* A content that the origin holds more than once is counted: a candidate
\* of the second cache block has all the votes, there are fake matches,
\* and the first cache block was printed with all the votes.
C20_Witness ==
    /\ find.pc = "mapping"
    /\ OffsetsOnce
    /\ cache_block_size(args) % fs_block_size(args) = 0
    /\ find.cache_block = 1
    /\ find.fake_matches >= 1
    /\ \E P \in DOMAIN find.matches :
          find.matches[P] = fs_blocks_per_cache_block(args)
    /\ Len(output) = 1
    /\ \E i \in DOMAIN output[1].lines : output[1].lines[i].count = output[1].lines[i].of

====
